---- MODULE Spec2Model ----
(***************************************************************************)
(* go-swagger: runtime host/scheme detection (detectHost, detectScheme)    *)
(* and the documentation publishers (SetupWithSwag, SetupFromDocs, Setup,  *)
(* Swagger.docHandler) that rewrite the host and schemes of a swagger      *)
(* document on every request.                                              *)
(*                                                                         *)
(* Every Go string is a sequence of one-character strings, so that         *)
(* strings.HasSuffix, strings.Contains and strings.Split are computed on   *)
(* the characters, as the code computes them.                              *)
(***************************************************************************)
EXTENDS Integers, Sequences, FiniteSets, TLC

VARIABLES
    env,        \* the process environment read by os.Getenv
    dReq,       \* SpecDetect: <<c>>, the request handed to detectHost / detectScheme
    dHost,      \* SpecDetect: <<h>>, what detectHost returned for dReq
    dScheme,    \* SpecDetect: <<s>>, what detectScheme returned for dReq
    pcMain,     \* the main goroutine: "start", "registered", "serving", "panic"
    loaded,     \* <<[spec, err, malformed]>>: what the last LoadSwagDocs call
                \* returned, and whether its text was malformed JSON
    setupCall,  \* <<[fn, arg, config, ret]>>: the setup entry point that was called
                \* (SetupFromDocs: with info, the swaggerInfo it was given)
    SwagSpec,   \* the package variable SwagSpec
    routes,     \* the routes registered on the gin router
    handler,    \* <<[swagSpec, config]>>: what the JSON closure of SetupWithSwag captured
    swagger,    \* <<[config, spec]>>: the Swagger instance whose docHandler is registered
    heap,       \* the Go maps: heap[0] is the map swagSpec refers to, heap[i] the
                \* map made by the request in slot i
    slots       \* the requests in flight, one per slot

vars == <<env, dReq, dHost, dScheme, pcMain, loaded, setupCall, SwagSpec, routes,
          handler, swagger, heap, slots>>

detectVars == <<dReq, dHost, dScheme>>
serverVars == <<pcMain, loaded, setupCall, SwagSpec, routes, handler, swagger, heap, slots>>

----------------------------------------------------------------------------
(* Go strings *)

Empty == <<>>

\* ":80" and ":443", the standard ports detectHost strips
Port80 == <<":", "8", "0">>
Port443 == <<":", "4", "4", "3">>
Colon == <<":">>

\* ".railway.app" and ".up.railway.app", the Railway domains of detectScheme
RailwayApp == <<".", "r", "a", "i", "l", "w", "a", "y", ".", "a", "p", "p">>
UpRailwayApp == <<".", "u", "p">> \o RailwayApp

\* "localhost:8080", the fallback of detectHost
LocalhostFallback == <<"l", "o", "c", "a", "l", "h", "o", "s", "t", ":", "8", "0", "8", "0">>

Https == <<"h", "t", "t", "p", "s">>
Http == <<"h", "t", "t", "p">>
Production == <<"p", "r", "o", "d", "u", "c", "t", "i", "o", "n">>
Staging == <<"s", "t", "a", "g", "i", "n", "g">>

\* the keys the handlers overwrite, and the key and text of the 500 body
HostKey == <<"h", "o", "s", "t">>
SchemesKey == <<"s", "c", "h", "e", "m", "e", "s">>
ErrorKey == <<"e", "r", "r", "o", "r">>
InvalidSwaggerSpec == <<"I", "n", "v", "a", "l", "i", "d", " ", "s", "w", "a", "g", "g", "e", "r", " ", "s", "p", "e", "c">>

\* the default routes of DefaultConfig, the wildcard SetupWithSwag appends to
\* UIPath, and the page the browser UI is opened at
SwaggerPath == <<"/", "s", "w", "a", "g", "g", "e", "r">>
SwaggerJSONPath == <<"/", "s", "w", "a", "g", "g", "e", "r", ".", "j", "s", "o", "n">>
AnySuffix == <<"/", "*", "a", "n", "y">>
IndexPath == SwaggerPath \o <<"/", "i", "n", "d", "e", "x", ".", "h", "t", "m", "l">>

\* strings.HasPrefix(s, prefix)
HasPrefix(s, prefix) ==
    /\ Len(s) >= Len(prefix)
    /\ SubSeq(s, 1, Len(prefix)) = prefix

\* strings.HasSuffix(s, suffix)
HasSuffix(s, suffix) ==
    /\ Len(s) >= Len(suffix)
    /\ SubSeq(s, Len(s) - Len(suffix) + 1, Len(s)) = suffix

\* strings.Contains(s, substr)
Contains(s, substr) ==
    \E i \in 1..(Len(s) - Len(substr) + 1) :
        SubSeq(s, i, i + Len(substr) - 1) = substr

\* strings.Index(s, sep): the first position at which sep occurs, 0 if none
Index(s, sep) ==
    IF Contains(s, sep)
    THEN CHOOSE i \in 1..(Len(s) - Len(sep) + 1) :
            /\ SubSeq(s, i, i + Len(sep) - 1) = sep
            /\ \A j \in 1..(i - 1) : SubSeq(s, j, j + Len(sep) - 1) # sep
    ELSE 0

\* strings.Split(s, sep) for a non-empty sep: the substrings between the
\* occurrences of sep, in order
RECURSIVE Split(_, _)
Split(s, sep) ==
    LET i == Index(s, sep)
    IN  IF i = 0
        THEN <<s>>
        ELSE <<SubSeq(s, 1, i - 1)>> \o Split(SubSeq(s, i + Len(sep), Len(s)), sep)

----------------------------------------------------------------------------
(* The Origin Resolver *)

\* os.Getenv(key)
Getenv(key) == env[key]

\* detectHost with RAILWAY_STATIC_URL looked at before the Host value
detectHostRailwayFirst(c) ==
    IF c.xfh # Empty THEN c.xfh
    ELSE IF Getenv("RAILWAY_STATIC_URL") # Empty THEN Getenv("RAILWAY_STATIC_URL")
    ELSE IF c.host # Empty THEN
        IF HasSuffix(c.host, Port80) \/ HasSuffix(c.host, Port443)
        THEN Split(c.host, Colon)[1]
        ELSE c.host
    ELSE IF Getenv("RAILWAY_PUBLIC_DOMAIN") # Empty THEN Getenv("RAILWAY_PUBLIC_DOMAIN")
    ELSE IF Getenv("API_HOST") # Empty THEN Getenv("API_HOST")
    ELSE IF Getenv("API_URL") # Empty THEN Getenv("API_URL")
    ELSE LocalhostFallback

\* detectHost with API_HOST looked at before RAILWAY_PUBLIC_DOMAIN
detectHostApiHostEarly(c) ==
    IF c.xfh # Empty THEN c.xfh
    ELSE IF c.host # Empty THEN
        IF HasSuffix(c.host, Port80) \/ HasSuffix(c.host, Port443)
        THEN Split(c.host, Colon)[1]
        ELSE c.host
    ELSE IF Getenv("RAILWAY_STATIC_URL") # Empty THEN Getenv("RAILWAY_STATIC_URL")
    ELSE IF Getenv("API_HOST") # Empty THEN Getenv("API_HOST")
    ELSE IF Getenv("RAILWAY_PUBLIC_DOMAIN") # Empty THEN Getenv("RAILWAY_PUBLIC_DOMAIN")
    ELSE IF Getenv("API_URL") # Empty THEN Getenv("API_URL")
    ELSE LocalhostFallback

\* detectHost with the Host value looked at before X-Forwarded-Host
detectHostHostFirst(c) ==
    IF c.host # Empty THEN
        IF HasSuffix(c.host, Port80) \/ HasSuffix(c.host, Port443)
        THEN Split(c.host, Colon)[1]
        ELSE c.host
    ELSE IF c.xfh # Empty THEN c.xfh
    ELSE IF Getenv("RAILWAY_STATIC_URL") # Empty THEN Getenv("RAILWAY_STATIC_URL")
    ELSE IF Getenv("RAILWAY_PUBLIC_DOMAIN") # Empty THEN Getenv("RAILWAY_PUBLIC_DOMAIN")
    ELSE IF Getenv("API_HOST") # Empty THEN Getenv("API_HOST")
    ELSE IF Getenv("API_URL") # Empty THEN Getenv("API_URL")
    ELSE LocalhostFallback

\* detectHost(c): c.xfh is c.Request.Header.Get("X-Forwarded-Host"),
\* c.host is c.Request.Host
detectHost(c) ==
    IF c.xfh # Empty THEN c.xfh
    ELSE IF c.host # Empty THEN
        IF HasSuffix(c.host, Port80) \/ HasSuffix(c.host, Port443)
        THEN Split(c.host, Colon)[1]
        ELSE c.host
    ELSE IF Getenv("RAILWAY_STATIC_URL") # Empty THEN Getenv("RAILWAY_STATIC_URL")
    ELSE IF Getenv("RAILWAY_PUBLIC_DOMAIN") # Empty THEN Getenv("RAILWAY_PUBLIC_DOMAIN")
    ELSE IF Getenv("API_HOST") # Empty THEN Getenv("API_HOST")
    ELSE IF Getenv("API_URL") # Empty THEN Getenv("API_URL")
    ELSE LocalhostFallback

\* detectScheme with the TLS state looked at last, after ENV
detectSchemeTLSLast(c) ==
    IF c.xfp # Empty THEN c.xfp
    ELSE IF Contains(c.host, RailwayApp) \/ Contains(c.host, UpRailwayApp) THEN Https
    ELSE IF Getenv("ENV") = Production \/ Getenv("ENV") = Staging THEN Https
    ELSE IF c.tls THEN Https
    ELSE Http

\* detectScheme with X-Forwarded-Proto used only when it is "http" or "https"
detectSchemeKnownProto(c) ==
    IF c.tls THEN Https
    ELSE IF c.xfp = Http \/ c.xfp = Https THEN c.xfp
    ELSE IF Contains(c.host, RailwayApp) \/ Contains(c.host, UpRailwayApp) THEN Https
    ELSE IF Getenv("ENV") = Production \/ Getenv("ENV") = Staging THEN Https
    ELSE Http

\* detectScheme with ENV matched by its first characters ("prod" counts)
detectSchemeEnvPrefix(c) ==
    IF c.tls THEN Https
    ELSE IF c.xfp # Empty THEN c.xfp
    ELSE IF Contains(c.host, RailwayApp) \/ Contains(c.host, UpRailwayApp) THEN Https
    ELSE IF HasPrefix(Getenv("ENV"), SubSeq(Production, 1, 4)) \/ Getenv("ENV") = Staging THEN Https
    ELSE Http

\* detectScheme with X-Forwarded-Proto looked at before the TLS state
detectSchemeProtoFirst(c) ==
    IF c.xfp # Empty THEN c.xfp
    ELSE IF c.tls THEN Https
    ELSE IF Contains(c.host, RailwayApp) \/ Contains(c.host, UpRailwayApp) THEN Https
    ELSE IF Getenv("ENV") = Production \/ Getenv("ENV") = Staging THEN Https
    ELSE Http

\* detectScheme(c): c.tls is c.Request.TLS != nil, c.xfp is
\* c.Request.Header.Get("X-Forwarded-Proto")
detectScheme(c) ==
    IF c.tls THEN Https
    ELSE IF c.xfp # Empty THEN c.xfp
    ELSE IF Contains(c.host, RailwayApp) \/ Contains(c.host, UpRailwayApp) THEN Https
    ELSE IF Getenv("ENV") = Production \/ Getenv("ENV") = Staging THEN Https
    ELSE Http

----------------------------------------------------------------------------
(* Go values held in an interface{}, as encoding/json produces them *)

\* the nil interface (also what JSON null decodes to)
Nil == [t |-> "nil", v |-> <<>>]
\* a string
GoString(str) == [t |-> "str", v |-> str]
\* a float64 (a JSON number; the digits are kept)
GoNumber(digits) == [t |-> "num", v |-> digits]
\* a slice: []interface{} from JSON, []string from the handlers
GoSlice(elems) == [t |-> "arr", v |-> elems]
\* a map[string]interface{}: a function from the keys to the values
GoMap(m) == [t |-> "obj", v |-> m]
\* a Go value that is no map, slice, string or number (a struct such as
\* docs.SwaggerInfo handed to SetupWithSwag)
GoStruct == [t |-> "struct", v |-> <<>>]

EmptyMap == [k \in {} |-> Nil]

\* m[key] = value
MapSet(m, key, value) ==
    [k \in DOMAIN m \cup {key} |-> IF k = key THEN value ELSE m[k]]

\* []string{...} as a Go value
StringSlice(strs) == GoSlice([i \in 1..Len(strs) |-> GoString(strs[i])])

(* JSON text: a sequence of tokens (the lexical layer of encoding/json,     *)
(* white space and the spelling of literals, is not modelled). A token is   *)
(* [k, v]: k the kind, v the characters of a string or number literal.      *)
Tok(kind) == [k |-> kind, v |-> <<>>]
LBrace == Tok("{")
RBrace == Tok("}")
LBracket == Tok("[")
RBracket == Tok("]")
ColonTok == Tok(":")
CommaTok == Tok(",")
NullTok == Tok("null")
StrTok(str) == [k |-> "str", v |-> str]
NumTok(digits) == [k |-> "num", v |-> digits]

\* the result of a failed parse
ParseFail == [ok |-> FALSE, val |-> Nil, rest |-> <<>>]

RECURSIVE ParseValue(_)
RECURSIVE ParseElements(_, _)
RECURSIVE ParseMembers(_, _)

\* one JSON value at the head of toks: [ok, val, rest]
ParseValue(toks) ==
    IF toks = <<>> THEN ParseFail
    ELSE LET h == Head(toks)
             r == Tail(toks)
         IN  CASE h.k = "null" -> [ok |-> TRUE, val |-> Nil, rest |-> r]
               [] h.k = "num" -> [ok |-> TRUE, val |-> GoNumber(h.v), rest |-> r]
               [] h.k = "str" -> [ok |-> TRUE, val |-> GoString(h.v), rest |-> r]
               [] h.k = "[" ->
                    IF r # <<>> /\ Head(r) = RBracket
                    THEN [ok |-> TRUE, val |-> GoSlice(<<>>), rest |-> Tail(r)]
                    ELSE ParseElements(r, <<>>)
               [] h.k = "{" ->
                    IF r # <<>> /\ Head(r) = RBrace
                    THEN [ok |-> TRUE, val |-> GoMap(EmptyMap), rest |-> Tail(r)]
                    ELSE ParseMembers(r, EmptyMap)
               [] OTHER -> ParseFail

\* the elements of an array after "[" or ",": value ("," value)* "]"
ParseElements(toks, acc) ==
    LET e == ParseValue(toks)
    IN  IF ~e.ok \/ e.rest = <<>> THEN ParseFail
        ELSE IF Head(e.rest) = RBracket
        THEN [ok |-> TRUE, val |-> GoSlice(Append(acc, e.val)), rest |-> Tail(e.rest)]
        ELSE IF Head(e.rest) = CommaTok
        THEN ParseElements(Tail(e.rest), Append(acc, e.val))
        ELSE ParseFail

\* the members of an object after "{" or ",": string ":" value ("," ...)* "}";
\* a key given twice keeps its last value
ParseMembers(toks, acc) ==
    IF Len(toks) < 2 \/ Head(toks).k # "str" \/ toks[2] # ColonTok THEN ParseFail
    ELSE LET key == Head(toks).v
             e == ParseValue(SubSeq(toks, 3, Len(toks)))
         IN  IF ~e.ok \/ e.rest = <<>> THEN ParseFail
             ELSE IF Head(e.rest) = RBrace
             THEN [ok |-> TRUE, val |-> GoMap(MapSet(acc, key, e.val)), rest |-> Tail(e.rest)]
             ELSE IF Head(e.rest) = CommaTok
             THEN ParseMembers(Tail(e.rest), MapSet(acc, key, e.val))
             ELSE ParseFail

\* a decoder that stops after the first value and reports no error for the
\* text that follows it
UnmarshalPrefix(docJSON) ==
    LET r == ParseValue(docJSON)
    IN  IF r.ok
        THEN [err |-> FALSE, spec |-> r.val]
        ELSE [err |-> TRUE, spec |-> Nil]

\* json.Unmarshal([]byte(docJSON), &spec) into an interface{}: the whole text
\* must be one JSON value; [err, spec], spec untouched (nil) on an error
Unmarshal(docJSON) ==
    LET r == ParseValue(docJSON)
    IN  IF r.ok /\ r.rest = <<>>
        THEN [err |-> FALSE, spec |-> r.val]
        ELSE [err |-> TRUE, spec |-> Nil]

\* LoadSwagDocs with the error of json.Unmarshal dropped
LoadSwagDocsErrorDropped(docJSON) ==
    [spec |-> Unmarshal(docJSON).spec, err |-> FALSE]

\* LoadSwagDocs(docJSON): (spec, err)
LoadSwagDocs(docJSON) ==
    LET u == Unmarshal(docJSON)
    IN  IF u.err THEN [spec |-> Nil, err |-> TRUE]
        ELSE [spec |-> u.spec, err |-> FALSE]

----------------------------------------------------------------------------
(* Config, and the document New builds from it *)

\* DefaultConfig()
DefaultConfig ==
    [Title |-> Empty, Description |-> Empty, Version |-> Empty,
     Host |-> Empty, BasePath |-> Empty, Schemes |-> <<>>,
     AutoDetectHost |-> TRUE, Enabled |-> TRUE,
     UIPath |-> SwaggerPath, JSONPath |-> SwaggerJSONPath,
     BearerAuth |-> FALSE,
     ContactName |-> Empty, ContactEmail |-> Empty, ContactURL |-> Empty,
     LicenseName |-> Empty, LicenseURL |-> Empty]

\* NewConfig()
NewConfig ==
    [DefaultConfig EXCEPT !.Title = <<"A", "P", "I">>,
                          !.Description = <<"A", "P", "I", " ", "D", "o", "c", "u", "m", "e", "n", "t", "a", "t", "i", "o", "n">>,
                          !.Version = <<"1", ".", "0", ".", "0">>,
                          !.BasePath = <<"/">>]

\* a *Config argument is <<>> (nil) or <<config>>; this is the
\* "if config == nil { config = DefaultConfig() }" of the entry points
OrDefault(config) == IF config = <<>> THEN DefaultConfig ELSE config[1]

\* the builder setters of Config that New reads
WithTitle(c, title) == [c EXCEPT !.Title = title]
WithDescription(c, description) == [c EXCEPT !.Description = description]
WithVersion(c, version) == [c EXCEPT !.Version = version]
WithBearerAuth(c, enabled) == [c EXCEPT !.BearerAuth = enabled]
WithContact(c, name, email, url) ==
    [c EXCEPT !.ContactName = name, !.ContactEmail = email, !.ContactURL = url]
WithLicense(c, name, url) == [c EXCEPT !.LicenseName = name, !.LicenseURL = url]

\* "Bearer", and the security scheme New declares under that name
Bearer == <<"B", "e", "a", "r", "e", "r">>
BearerScheme ==
    [Type |-> <<"a", "p", "i", "K", "e", "y">>,
     In |-> <<"h", "e", "a", "d", "e", "r">>,
     Name |-> <<"A", "u", "t", "h", "o", "r", "i", "z", "a", "t", "i", "o", "n">>]

\* New with the Bearer scheme declared whatever Config.BearerAuth is
NewBearerAlways(config) ==
    LET c == OrDefault(config)
    IN  [config |-> c,
         spec |->
            [Swagger |-> <<"2", ".", "0">>,
             Host |-> c.Host,
             BasePath |-> c.BasePath,
             Schemes |-> c.Schemes,
             Info |->
                [Title |-> c.Title,
                 Description |-> c.Description,
                 Version |-> c.Version,
                 Contact |->
                    IF c.ContactName # Empty \/ c.ContactEmail # Empty \/ c.ContactURL # Empty
                    THEN <<[Name |-> c.ContactName, Email |-> c.ContactEmail, URL |-> c.ContactURL]>>
                    ELSE <<>>,
                 License |->
                    IF c.LicenseName # Empty
                    THEN <<[Name |-> c.LicenseName, URL |-> c.LicenseURL]>>
                    ELSE <<>>],
             Paths |-> EmptyMap,
             Definitions |-> EmptyMap,
             SecurityDefinitions |-> Bearer :> BearerScheme]]

\* New(config): the Swagger instance [config, spec]
New(config) ==
    LET c == OrDefault(config)
    IN  [config |-> c,
         spec |->
            [Swagger |-> <<"2", ".", "0">>,
             Host |-> c.Host,
             BasePath |-> c.BasePath,
             Schemes |-> c.Schemes,
             Info |->
                [Title |-> c.Title,
                 Description |-> c.Description,
                 Version |-> c.Version,
                 Contact |->
                    IF c.ContactName # Empty \/ c.ContactEmail # Empty \/ c.ContactURL # Empty
                    THEN <<[Name |-> c.ContactName, Email |-> c.ContactEmail, URL |-> c.ContactURL]>>
                    ELSE <<>>,
                 License |->
                    IF c.LicenseName # Empty
                    THEN <<[Name |-> c.LicenseName, URL |-> c.LicenseURL]>>
                    ELSE <<>>],
             Paths |-> EmptyMap,
             Definitions |-> EmptyMap,
             SecurityDefinitions |->
                IF c.BearerAuth
                THEN Bearer :> BearerScheme
                ELSE EmptyMap]]

\* GetSpec(): the pointer s.spec, so the document as it is now
GetSpec(s) == s.spec

\* the JSON names of the struct tags of SwaggerSpec, Info, Contact, License
\* and SecurityDefinition ("host" and "schemes" are HostKey and SchemesKey)
SwaggerTag == <<"s", "w", "a", "g", "g", "e", "r">>
InfoTag == <<"i", "n", "f", "o">>
BasePathTag == <<"b", "a", "s", "e", "P", "a", "t", "h">>
SecurityDefinitionsTag == <<"s", "e", "c", "u", "r", "i", "t", "y", "D", "e", "f", "i", "n", "i", "t", "i", "o", "n", "s">>
TitleTag == <<"t", "i", "t", "l", "e">>
DescriptionTag == <<"d", "e", "s", "c", "r", "i", "p", "t", "i", "o", "n">>
VersionTag == <<"v", "e", "r", "s", "i", "o", "n">>
ContactTag == <<"c", "o", "n", "t", "a", "c", "t">>
LicenseTag == <<"l", "i", "c", "e", "n", "s", "e">>
NameTag == <<"n", "a", "m", "e">>
EmailTag == <<"e", "m", "a", "i", "l">>
URLTag == <<"u", "r", "l">>
TypeTag == <<"t", "y", "p", "e">>
InTag == <<"i", "n">>

\* one member of a JSON object: "name": value
JSONMember(name, value) == <<StrTok(name), ColonTok>> \o value

\* a string field with omitempty: no member for ""
OmitEmptyMember(name, str) ==
    IF str = Empty THEN <<>> ELSE JSONMember(name, <<StrTok(str)>>)

\* the members that are there (an omitted one is <<>>), with commas between
RECURSIVE JoinMembers(_)
JoinMembers(members) ==
    IF members = <<>> THEN <<>>
    ELSE IF Head(members) = <<>> THEN JoinMembers(Tail(members))
    ELSE LET rest == JoinMembers(Tail(members))
         IN  IF rest = <<>> THEN Head(members) ELSE Head(members) \o <<CommaTok>> \o rest

\* a struct or map as a JSON object
JSONObject(members) == <<LBrace>> \o JoinMembers(members) \o <<RBrace>>

\* a []string: null for the nil slice, else the array of its strings
RECURSIVE JoinStrings(_)
JoinStrings(strs) ==
    IF Len(strs) = 1 THEN <<StrTok(strs[1])>>
    ELSE <<StrTok(strs[1]), CommaTok>> \o JoinStrings(Tail(strs))

MarshalStrings(strs) ==
    IF strs = <<>> THEN <<NullTok>>
    ELSE <<LBracket>> \o JoinStrings(strs) \o <<RBracket>>

\* Info
MarshalInfo(info) ==
    JSONObject(<<
        JSONMember(TitleTag, <<StrTok(info.Title)>>),
        JSONMember(DescriptionTag, <<StrTok(info.Description)>>),
        JSONMember(VersionTag, <<StrTok(info.Version)>>),
        IF info.Contact = <<>> THEN <<>>
        ELSE JSONMember(ContactTag, JSONObject(<<
                OmitEmptyMember(NameTag, info.Contact[1].Name),
                OmitEmptyMember(EmailTag, info.Contact[1].Email),
                OmitEmptyMember(URLTag, info.Contact[1].URL)>>)),
        IF info.License = <<>> THEN <<>>
        ELSE JSONMember(LicenseTag, JSONObject(<<
                JSONMember(NameTag, <<StrTok(info.License[1].Name)>>),
                OmitEmptyMember(URLTag, info.License[1].URL)>>))>>)

\* map[string]SecurityDefinition with omitempty: New puts at most the one
\* key "Bearer" in it
MarshalSecurityDefinitions(defs) ==
    IF DOMAIN defs = {} THEN <<>>
    ELSE JSONMember(SecurityDefinitionsTag, JSONObject(<<
            JSONMember(Bearer, JSONObject(<<
                JSONMember(TypeTag, <<StrTok(defs[Bearer].Type)>>),
                OmitEmptyMember(InTag, defs[Bearer].In),
                OmitEmptyMember(NameTag, defs[Bearer].Name)>>))>>))

\* ExportJSON(): json.MarshalIndent(s.spec) as JSON tokens, the fields in the
\* order of the struct. Paths and Definitions are the empty maps New made
\* (SetPaths and SetDefinitions are not called), which omitempty leaves out.
ExportJSON(s) ==
    JSONObject(<<
        JSONMember(SwaggerTag, <<StrTok(s.spec.Swagger)>>),
        JSONMember(InfoTag, MarshalInfo(s.spec.Info)),
        JSONMember(HostKey, <<StrTok(s.spec.Host)>>),
        JSONMember(BasePathTag, <<StrTok(s.spec.BasePath)>>),
        JSONMember(SchemesKey, MarshalStrings(s.spec.Schemes)),
        MarshalSecurityDefinitions(s.spec.SecurityDefinitions)>>)

----------------------------------------------------------------------------
(* Inputs *)

\* the longest label put in front of a domain and a port to make a Host value
MaxLabel == 1

Labels == UNION {[1..n -> {"a", ":"}] : n \in 0..MaxLabel}

\* "[::1]", an IPv6 literal
IPv6Loopback == <<"[", ":", ":", "1", "]">>

\* Host values of a request: a label, then nothing or a Railway domain, then
\* nothing or a standard port; "localhost:8080", whose port is not standard;
\* and an IPv6 literal with a standard port
Hosts ==
    {l \o d \o p : l \in Labels, d \in {Empty, RailwayApp, UpRailwayApp},
                   p \in {Empty, Port80, Port443}}
    \cup {LocalhostFallback, IPv6Loopback \o Port443}

\* X-Forwarded-Host values ("" is the absent header)
ForwardedHosts == {Empty, <<"f">>, <<"f">> \o UpRailwayApp, <<"f">> \o Port443}

\* X-Forwarded-Proto values ("" is the absent header)
ForwardedProtos == {Empty, Http, Https, <<"w", "s">>}

Requests == [xfh : ForwardedHosts, host : Hosts, xfp : ForwardedProtos, tls : BOOLEAN]

EnvKeys == {"RAILWAY_STATIC_URL", "RAILWAY_PUBLIC_DOMAIN", "API_HOST", "API_URL", "ENV"}

Envs ==
    [RAILWAY_STATIC_URL : {Empty, <<"s">> \o UpRailwayApp},
     RAILWAY_PUBLIC_DOMAIN : {Empty, <<"p">> \o RailwayApp},
     API_HOST : {Empty, <<"h">>},
     API_URL : {Empty, <<"u">>},
     ENV : {Empty, Production, Staging, <<"p", "r", "o", "d">>}]

\* the requests served in Spec: GET of a path, with two header sets that
\* resolve to different hosts and, in an empty environment, different schemes
DocPaths == {SwaggerJSONPath, IndexPath}

ServeHeaders ==
    {[xfh |-> <<"f">>, host |-> <<"a">> \o Port80, xfp |-> Empty, tls |-> FALSE],
     [xfh |-> <<"f">> \o UpRailwayApp, host |-> <<"a">>, xfp |-> Http, tls |-> TRUE]}

ServeRequests ==
    {[path |-> SwaggerJSONPath, xfh |-> h.xfh, host |-> h.host, xfp |-> h.xfp, tls |-> h.tls]
        : h \in ServeHeaders}
    \cup {[path |-> IndexPath, xfh |-> <<"f">>, host |-> <<"a">> \o Port80,
           xfp |-> Empty, tls |-> FALSE]}

ServeEnvs ==
    {[k \in EnvKeys |-> Empty],
     [RAILWAY_STATIC_URL |-> <<"s">> \o UpRailwayApp, RAILWAY_PUBLIC_DOMAIN |-> Empty,
      API_HOST |-> Empty, API_URL |-> Empty, ENV |-> Production]}

\* the manual override of a Config
ManualHost == <<"m">>
ManualSchemes == <<Https, Http>>

\* the *Config arguments: nil, or DefaultConfig() with the four fields set
Configs ==
    {<<>>} \cup
    {<<[DefaultConfig EXCEPT !.Enabled = e, !.AutoDetectHost = a, !.Host = h, !.Schemes = ss]>>
        : e \in BOOLEAN, a \in BOOLEAN, h \in {Empty, ManualHost}, ss \in {<<>>, ManualSchemes}}

\* the texts the setters are given
TestTitle == <<"T">>
TestDescription == <<"D">>
TestVersion == <<"2">>

\* the contact and license arguments: none given, all given, one field given
Contacts ==
    {<<Empty, Empty, Empty>>, <<<<"n">>, <<"e">>, <<"u">>>>, <<Empty, <<"e">>, Empty>>}
Licenses == {<<Empty, Empty>>, <<<<"M">>, <<"l">>>>, <<Empty, <<"l">>>>}

\* the *Config arguments of New: nil, or NewConfig() or DefaultConfig() with
\* setters applied
NewArgs ==
    {<<>>} \cup
    {<<WithLicense(
         WithContact(
           WithBearerAuth(WithVersion(WithDescription(WithTitle(base, t), d), v), b),
           ct[1], ct[2], ct[3]),
         li[1], li[2])>>
        : base \in {NewConfig, DefaultConfig},
          t \in {Empty, TestTitle}, d \in {Empty, TestDescription},
          v \in {Empty, TestVersion}, b \in BOOLEAN,
          ct \in Contacts, li \in Licenses}

\* the number of requests in flight at once
MaxInflight == 2
Slots == 1..MaxInflight

\* JSON texts: every token sequence of at most MaxTokens tokens, and some
\* longer documents, well-formed and not
MaxTokens == 2
TokAlphabet ==
    {LBrace, RBrace, LBracket, RBracket, ColonTok, CommaTok, NullTok,
     NumTok(<<"1">>), StrTok(HostKey)}
ShortTexts == UNION {[1..n -> TokAlphabet] : n \in 0..MaxTokens}

InfoKey == <<"i", "n", "f", "o">>

\* {"host": "localhost:8080", "schemes": ["http"], "info": {}}
DocText ==
    <<LBrace, StrTok(HostKey), ColonTok, StrTok(LocalhostFallback), CommaTok,
      StrTok(SchemesKey), ColonTok, LBracket, StrTok(Http), RBracket, CommaTok,
      StrTok(InfoKey), ColonTok, LBrace, RBrace, RBrace>>
\* [1, null]
ArrayText == <<LBracket, NumTok(<<"1">>), CommaTok, NullTok, RBracket>>

WellFormedLong == {DocText, ArrayText}

MalformedLong ==
    {SubSeq(DocText, 1, Len(DocText) - 1),                      \* the last } is missing
     DocText \o <<RBrace>>,                                      \* text after the value
     <<LBrace, StrTok(HostKey), StrTok(Http), RBrace>>,          \* no colon
     <<LBrace, StrTok(InfoKey), ColonTok, LBrace, RBrace, CommaTok, RBrace>>,  \* trailing comma
     <<LBrace, NumTok(<<"1">>), ColonTok, NullTok, RBrace>>,     \* a key that is no string
     <<LBracket, NumTok(<<"1">>), CommaTok, RBracket>>,          \* trailing comma
     <<LBracket, NumTok(<<"1">>), NullTok, RBracket>>}           \* no comma

Texts == ShortTexts \cup WellFormedLong \cup MalformedLong

(* The JSON grammar, generated: the well-formed texts of at most n tokens.  *)
(* It classifies the short texts without using the parser.                  *)
RECURSIVE JSONValues(_)
RECURSIVE JSONElements(_)
RECURSIVE JSONMembers(_)

JSONValues(n) ==
    IF n <= 0 THEN {}
    ELSE {t \in {<<NullTok>>, <<NumTok(<<"1">>)>>, <<StrTok(HostKey)>>,
                 <<LBracket, RBracket>>, <<LBrace, RBrace>>} : Len(t) <= n}
         \cup {<<LBracket>> \o l \o <<RBracket>> : l \in JSONElements(n - 2)}
         \cup {<<LBrace>> \o l \o <<RBrace>> : l \in JSONMembers(n - 2)}

JSONElements(n) ==
    IF n <= 0 THEN {}
    ELSE JSONValues(n)
         \cup {l \in {v \o <<CommaTok>> \o r : v \in JSONValues(n - 2), r \in JSONElements(n - 2)}
                 : Len(l) <= n}

JSONMembers(n) ==
    IF n <= 2 THEN {}
    ELSE {<<StrTok(HostKey), ColonTok>> \o v : v \in JSONValues(n - 2)}
         \cup {l \in {<<StrTok(HostKey), ColonTok>> \o v \o <<CommaTok>> \o r
                        : v \in JSONValues(n - 4), r \in JSONMembers(n - 4)}
                 : Len(l) <= n}

WellFormedShort == JSONValues(MaxTokens)

\* text is not well-formed JSON
Malformed(text) ==
    \/ text \in MalformedLong
    \/ text \in ShortTexts /\ text \notin WellFormedShort

\* the swaggerInfo arguments of SetupFromDocs: a value without a ReadDoc
\* method, or one whose ReadDoc returns doc
SwaggerInfos ==
    {[hasReadDoc |-> FALSE, doc |-> <<>>]} \cup
    {[hasReadDoc |-> TRUE, doc |-> t]
        : t \in WellFormedLong \cup MalformedLong \cup {<<>>, <<NullTok>>}}

----------------------------------------------------------------------------
(* The Document Publisher: setup *)

NoSlot == [pc |-> "idle", req |-> <<>>, dyn |-> <<>>, resp |-> <<>>]

InitServer ==
    /\ pcMain = "start"
    /\ loaded = <<>>
    /\ setupCall = <<>>
    /\ SwagSpec = Nil
    /\ routes = {}
    /\ handler = <<>>
    /\ swagger = <<>>
    /\ heap = [r \in {0} \cup Slots |-> EmptyMap]
    /\ slots = [i \in Slots |-> NoSlot]

\* a route of the router: GET pattern -> handler; url is the ginSwagger.URL
\* the UI handler was wrapped with
Route(pattern, h, url) == [pattern |-> pattern, handler |-> h, url |-> url]

\* the disabled flag not honoured
SwagDisabledNever(config) == FALSE

\* "Skip if disabled" of SetupWithSwag
SwagDisabled(config) == ~config.Enabled

\* SetupWithSwag(router, swagSpec, config): what it does to SwagSpec, the router
\* and the closure it registers
SetupWithSwag(swagSpec, config) ==
    LET c == OrDefault(config)
    IN  IF SwagDisabled(c)
        THEN UNCHANGED <<SwagSpec, routes, handler, heap>>
        ELSE /\ SwagSpec' = swagSpec
             /\ handler' = <<[swagSpec |-> swagSpec, config |-> c]>>
             /\ heap' = [heap EXCEPT ![0] = IF swagSpec.t = "obj" THEN swagSpec.v ELSE EmptyMap]
             /\ routes' = routes \cup
                    {Route(c.JSONPath, "swag", Empty),
                     Route(c.UIPath \o AnySuffix, "ui", c.JSONPath)}

\* the main goroutine calls LoadSwagDocs(text), before the setup call or
\* after it (one call each: the function keeps nothing between calls)
DoLoadSwagDocs(text) ==
    /\ pcMain \in {"start", "registered"}
    /\ loaded = <<>>
    /\ LET l == LoadSwagDocs(text)
       IN  loaded' = <<[spec |-> l.spec, err |-> l.err, malformed |-> Malformed(text)]>>
    /\ UNCHANGED <<env, detectVars, pcMain, setupCall, SwagSpec, routes, handler,
                   swagger, heap, slots>>

\* the main goroutine calls SetupWithSwag(router, swagSpec, config), with the
\* spec LoadSwagDocs returned (its error ignored or not) or another Go value
DoSetupWithSwag(swagSpec, config) ==
    /\ pcMain = "start"
    /\ SetupWithSwag(swagSpec, config)
    /\ setupCall' = <<[fn |-> "SetupWithSwag", arg |-> swagSpec, config |-> config, ret |-> ""]>>
    /\ pcMain' = "registered"
    /\ loaded' = <<>>
    /\ UNCHANGED <<env, detectVars, swagger, slots>>

\* the main goroutine calls SetupFromDocs(router, swaggerInfo, config)
DoSetupFromDocs(info, config) ==
    /\ pcMain = "start"
    /\ pcMain' = "registered"
    /\ loaded' = <<>>
    /\ UNCHANGED <<env, detectVars, swagger, slots>>
    /\ IF ~info.hasReadDoc
       THEN /\ setupCall' = <<[fn |-> "SetupFromDocs", arg |-> Nil, config |-> config,
                               ret |-> "ErrNotSupported", info |-> info]>>
            /\ UNCHANGED <<SwagSpec, routes, handler, heap>>
       ELSE LET l == LoadSwagDocs(info.doc)
            IN  IF l.err
                THEN /\ setupCall' = <<[fn |-> "SetupFromDocs", arg |-> Nil, config |-> config,
                                        ret |-> "ParseError", info |-> info]>>
                     /\ UNCHANGED <<SwagSpec, routes, handler, heap>>
                ELSE /\ setupCall' = <<[fn |-> "SetupFromDocs", arg |-> l.spec, config |-> config,
                                        ret |-> "", info |-> info]>>
                     /\ SetupWithSwag(l.spec, <<OrDefault(config)>>)

\* the main goroutine calls Setup(router, config) of the programmatic
\* publisher: New(config), then config.Enabled is read through the pointer,
\* which panics when config is nil
DoSetup(config) ==
    /\ pcMain = "start"
    /\ loaded' = <<>>
    /\ UNCHANGED <<env, detectVars, SwagSpec, handler, heap, slots>>
    /\ LET s == New(config)
       IN  IF config = <<>>
           THEN /\ pcMain' = "panic"
                /\ setupCall' = <<[fn |-> "Setup", arg |-> Nil, config |-> config, ret |-> "panic"]>>
                /\ UNCHANGED <<routes, swagger>>
           ELSE /\ pcMain' = "registered"
                /\ setupCall' = <<[fn |-> "Setup", arg |-> Nil, config |-> config, ret |-> ""]>>
                /\ IF ~config[1].Enabled
                   THEN UNCHANGED <<routes, swagger>>
                   ELSE /\ swagger' = <<s>>
                        /\ routes' = routes \cup
                              {Route(config[1].JSONPath, "doc", Empty),
                               Route(config[1].UIPath \o AnySuffix, "ui", config[1].JSONPath)}

\* the main goroutine calls the convenience Setup(router, config) error:
\* nil config replaced by DefaultConfig(), then the UI route alone is
\* registered, with no ginSwagger.URL, and nil is returned; config.Enabled
\* is not read
DoSetupConvenience(config) ==
    /\ pcMain = "start"
    /\ pcMain' = "registered"
    /\ loaded' = <<>>
    /\ setupCall' = <<[fn |-> "SetupConvenience", arg |-> Nil, config |-> config, ret |-> ""]>>
    /\ routes' = routes \cup {Route(OrDefault(config).UIPath \o AnySuffix, "ui", Empty)}
    /\ UNCHANGED <<env, detectVars, SwagSpec, handler, swagger, heap, slots>>

\* the main goroutine calls router.Run: requests are served from now on
Run ==
    /\ pcMain = "registered"
    /\ pcMain' = "serving"
    /\ loaded' = <<>>
    /\ UNCHANGED <<env, detectVars, setupCall, SwagSpec, routes, handler, swagger, heap, slots>>

----------------------------------------------------------------------------
(* The Document Publisher: serving *)

\* gin's match of a request path against a registered pattern
Matches(pattern, path) ==
    IF HasSuffix(pattern, AnySuffix)
    THEN HasPrefix(path, SubSeq(pattern, 1, Len(pattern) - Len(AnySuffix) + 1))
    ELSE pattern = path

\* the routes a path is dispatched to
Lookup(path) == {rt \in routes : Matches(rt.pattern, path)}

SetSlot(i, s) == slots' = [slots EXCEPT ![i] = s]

Response(status, body) == <<[status |-> status, body |-> body]>>

\* a GET request arrives and is dispatched: 404 without a route
Arrive(i, r) ==
    /\ pcMain = "serving"
    /\ slots[i].pc = "idle"
    /\ IF Lookup(r.path) = {}
       THEN SetSlot(i, [pc |-> "done", req |-> <<r>>, dyn |-> <<>>, resp |-> Response(404, Nil)])
       ELSE SetSlot(i, [pc |-> (CHOOSE rt \in Lookup(r.path) : TRUE).handler,
                        req |-> <<r>>, dyn |-> <<>>, resp |-> <<>>])
    /\ UNCHANGED <<env, detectVars, pcMain, loaded, setupCall, SwagSpec, routes, handler,
                   swagger, heap>>

\* no new map: dynamicSpec is specMap itself
AliasSpecMap(i) == 0

\* make(map[string]interface{}) in the request of slot i: a fresh map
MakeMap(i) == i

\* the host detected also when auto-detection is off
SwagHostAlwaysDetect(config, c) == detectHost(c)

\* the host the JSON closure writes: detected, or the manual one
SwagHost(config, c) ==
    IF config.AutoDetectHost THEN detectHost(c) ELSE config.Host

\* "http" written when no manual schemes are given, with no detection
SwagSchemesStaticHttp(config, c) ==
    IF config.AutoDetectHost THEN <<detectScheme(c)>>
    ELSE IF Len(config.Schemes) > 0 THEN config.Schemes
    ELSE <<Http>>

\* the manual schemes preferred to the detected one
SwagSchemesManualFirst(config, c) ==
    IF Len(config.Schemes) > 0 THEN config.Schemes ELSE <<detectScheme(c)>>

\* the schemes the JSON closure writes
SwagSchemes(config, c) ==
    IF config.AutoDetectHost THEN <<detectScheme(c)>>
    ELSE IF Len(config.Schemes) > 0 THEN config.Schemes
    ELSE <<detectScheme(c)>>

\* a type assertion that lets a slice through as well
IsSpecMapOrSlice(swagSpec) == swagSpec.t \in {"obj", "arr"}

\* specMap, ok := swagSpec.(map[string]interface{})
IsSpecMap(swagSpec) == swagSpec.t = "obj"

\* the override entered also for manual schemes given without a manual host
SwagOverridesForSchemes(config) ==
    config.AutoDetectHost \/ config.Host # Empty \/ Len(config.Schemes) > 0

\* the closure overrides host and schemes at all
SwagOverrides(config) == config.AutoDetectHost \/ config.Host # Empty

\* the JSON closure, first part: the type assertion, then the clone of the
\* spec into a new map; 500 when the spec is no map
SwagClone(i) ==
    /\ slots[i].pc = "swag"
    /\ IF ~IsSpecMap(handler[1].swagSpec)
       THEN /\ SetSlot(i, [slots[i] EXCEPT !.pc = "done",
                    !.resp = Response(500, GoMap(ErrorKey :> GoString(InvalidSwaggerSpec)))])
            /\ UNCHANGED heap
       ELSE /\ heap' = [heap EXCEPT ![MakeMap(i)] = [k \in DOMAIN heap[0] |-> heap[0][k]]]
            /\ SetSlot(i, [slots[i] EXCEPT !.dyn = <<MakeMap(i)>>,
                    !.pc = IF SwagOverrides(handler[1].config) THEN "swagOverride" ELSE "swagRespond"])
    /\ UNCHANGED <<env, detectVars, pcMain, loaded, setupCall, SwagSpec, routes, handler, swagger>>

\* the override of the closure: dynamicSpec["host"] = ... and
\* dynamicSpec["schemes"] = ...
SwagOverride(i) ==
    /\ slots[i].pc = "swagOverride"
    /\ heap' = [heap EXCEPT ![slots[i].dyn[1]] =
                    MapSet(MapSet(@, HostKey,
                                  GoString(SwagHost(handler[1].config, slots[i].req[1]))),
                           SchemesKey,
                           StringSlice(SwagSchemes(handler[1].config, slots[i].req[1])))]
    /\ SetSlot(i, [slots[i] EXCEPT !.pc = "swagRespond"])
    /\ UNCHANGED <<env, detectVars, pcMain, loaded, setupCall, SwagSpec, routes, handler, swagger>>

\* c.JSON(http.StatusOK, dynamicSpec): the body is the map as it is now
SwagRespond(i) ==
    /\ slots[i].pc = "swagRespond"
    /\ SetSlot(i, [slots[i] EXCEPT !.pc = "done",
                    !.resp = Response(200, GoMap(heap[slots[i].dyn[1]]))])
    /\ UNCHANGED <<env, detectVars, pcMain, loaded, setupCall, SwagSpec, routes, handler,
                   swagger, heap>>

\* the host docHandler writes into s.spec
DocHost(config, c) ==
    IF config.AutoDetectHost THEN detectHost(c) ELSE config.Host

\* the schemes docHandler writes into s.spec
DocSchemes(config, c) ==
    IF config.AutoDetectHost THEN <<detectScheme(c)>>
    ELSE IF Len(config.Schemes) > 0 THEN config.Schemes
    ELSE <<detectScheme(c)>>

\* docHandler overrides host and schemes at all
DocOverrides(config) == config.AutoDetectHost \/ config.Host # Empty

\* docHandler: s.spec.Host = ...
DocWriteHost(i) ==
    /\ slots[i].pc = "doc"
    /\ DocOverrides(swagger[1].config)
    /\ swagger' = <<[swagger[1] EXCEPT !.spec.Host = DocHost(swagger[1].config, slots[i].req[1])]>>
    /\ SetSlot(i, [slots[i] EXCEPT !.pc = "docSchemes"])
    /\ UNCHANGED <<env, detectVars, pcMain, loaded, setupCall, SwagSpec, routes, handler, heap>>

\* docHandler: s.spec.Schemes = ...
DocWriteSchemes(i) ==
    /\ slots[i].pc = "docSchemes"
    /\ swagger' = <<[swagger[1] EXCEPT
                        !.spec.Schemes = DocSchemes(swagger[1].config, slots[i].req[1])]>>
    /\ SetSlot(i, [slots[i] EXCEPT !.pc = "docRespond"])
    /\ UNCHANGED <<env, detectVars, pcMain, loaded, setupCall, SwagSpec, routes, handler, heap>>

\* docHandler: c.JSON(http.StatusOK, s.spec): the body is s.spec as it is now
DocRespond(i) ==
    /\ \/ slots[i].pc = "docRespond"
       \/ slots[i].pc = "doc" /\ ~DocOverrides(swagger[1].config)
    /\ SetSlot(i, [slots[i] EXCEPT !.pc = "done",
                    !.resp = Response(200, [t |-> "spec", v |-> swagger[1].spec])])
    /\ UNCHANGED <<env, detectVars, pcMain, loaded, setupCall, SwagSpec, routes, handler,
                   swagger, heap>>

\* the browser UI of ginSwagger.WrapHandler, which fetches url
UIServe(i) ==
    /\ slots[i].pc = "ui"
    /\ SetSlot(i, [slots[i] EXCEPT !.pc = "done",
                    !.resp = Response(200,
                        [t |-> "ui",
                         v |-> (CHOOSE rt \in Lookup(slots[i].req[1].path) : TRUE).url])])
    /\ UNCHANGED <<env, detectVars, pcMain, loaded, setupCall, SwagSpec, routes, handler,
                   swagger, heap>>

\* the response is sent; the request's map is garbage
Finish(i) ==
    /\ slots[i].pc = "done"
    /\ SetSlot(i, NoSlot)
    /\ heap' = [heap EXCEPT ![i] = EmptyMap]
    /\ UNCHANGED <<env, detectVars, pcMain, loaded, setupCall, SwagSpec, routes, handler, swagger>>

----------------------------------------------------------------------------
(* Spec: one setup call, then requests served concurrently *)

Init ==
    /\ env \in ServeEnvs
    /\ dReq = <<>>
    /\ dHost = <<>>
    /\ dScheme = <<>>
    /\ InitServer

Next ==
    \/ \E text \in Texts : DoLoadSwagDocs(text)
    \/ \E config \in Configs :
          \E swagSpec \in {GoStruct} \cup {loaded[k].spec : k \in DOMAIN loaded} :
              DoSetupWithSwag(swagSpec, config)
    \/ \E info \in SwaggerInfos, config \in Configs : DoSetupFromDocs(info, config)
    \/ \E config \in Configs : DoSetup(config)
    \/ \E config \in Configs : DoSetupConvenience(config)
    \/ Run
    \/ \E i \in Slots, r \in ServeRequests : Arrive(i, r)
    \/ \E i \in Slots : SwagClone(i)
    \/ \E i \in Slots : SwagOverride(i)
    \/ \E i \in Slots : SwagRespond(i)
    \/ \E i \in Slots : DocWriteHost(i)
    \/ \E i \in Slots : DocWriteSchemes(i)
    \/ \E i \in Slots : DocRespond(i)
    \/ \E i \in Slots : UIServe(i)
    \/ \E i \in Slots : Finish(i)

Spec == Init /\ [][Next]_vars

----------------------------------------------------------------------------
(* SpecDetect: the Origin Resolver applied to every request and environment *)

InitDetect ==
    /\ env \in Envs
    /\ dReq = <<>>
    /\ dHost = <<>>
    /\ dScheme = <<>>
    /\ InitServer

\* a call detectHost(c) on the next request
CallDetectHost(c) ==
    /\ dReq = <<>>
    /\ dReq' = <<c>>
    /\ dHost' = <<detectHost(c)>>
    /\ dScheme' = <<>>
    /\ UNCHANGED <<env, serverVars>>

\* the call detectScheme(c) on the same request
CallDetectScheme ==
    /\ dReq # <<>>
    /\ dScheme = <<>>
    /\ dScheme' = <<detectScheme(dReq[1])>>
    /\ UNCHANGED <<env, dReq, dHost, serverVars>>

\* both results are used; the next request may come
ReturnDetect ==
    /\ dScheme # <<>>
    /\ dReq' = <<>>
    /\ dHost' = <<>>
    /\ dScheme' = <<>>
    /\ UNCHANGED <<env, serverVars>>

NextDetect ==
    \/ \E c \in Requests : CallDetectHost(c)
    \/ CallDetectScheme
    \/ ReturnDetect

SpecDetect == InitDetect /\ [][NextDetect]_vars

----------------------------------------------------------------------------
(* SpecNew: New applied to every *Config argument *)

InitNew ==
    /\ env = [k \in EnvKeys |-> Empty]
    /\ dReq = <<>>
    /\ dHost = <<>>
    /\ dScheme = <<>>
    /\ InitServer

\* the main goroutine calls New(config) and keeps the instance
CallNew(config) ==
    /\ pcMain = "start"
    /\ setupCall = <<>>
    /\ setupCall' = <<[fn |-> "New", arg |-> Nil, config |-> config, ret |-> ""]>>
    /\ swagger' = <<New(config)>>
    /\ UNCHANGED <<env, detectVars, pcMain, loaded, SwagSpec, routes, handler, heap, slots>>

NextNew == \E config \in NewArgs : CallNew(config)

SpecNew == InitNew /\ [][NextNew]_vars

----------------------------------------------------------------------------
(* Properties of the Origin Resolver, checked under SpecDetect *)

\* detectHost has returned for the request dReq[1]
HostResolved == dHost # <<>>
\* detectHost and detectScheme have both returned for the request dReq[1]
BothResolved == dHost # <<>> /\ dScheme # <<>>

\* host contains one of the two Railway domains
IsRailwayHost(host) == Contains(host, RailwayApp) \/ Contains(host, UpRailwayApp)

\* s without its last n characters
DropLast(s, n) == SubSeq(s, 1, Len(s) - n)

\* the non-empty values of the four host variables of the environment
EnvHostValues ==
    {env[k] : k \in {"RAILWAY_STATIC_URL", "RAILWAY_PUBLIC_DOMAIN", "API_HOST", "API_URL"}}
        \ {Empty}

(* C1: whenever the request carries a non-empty X-Forwarded-Host, the host *)
(* detectHost returns is that header value exactly, whatever the Host       *)
(* value, the other headers, the TLS state and the environment are.         *)
C1_ForwardedHostWins ==
    HostResolved /\ dReq[1].xfh # Empty => dHost[1] = dReq[1].xfh

\* a forwarded host with a port, against a Railway Host with a standard port,
\* TLS, another proxy header and a populated environment
C1_Witness ==
    /\ HostResolved
    /\ dReq[1].xfh = <<"f">> \o Port443
    /\ dReq[1].host = <<"a">> \o RailwayApp \o Port80
    /\ dReq[1].tls
    /\ dReq[1].xfp = Http
    /\ env.RAILWAY_STATIC_URL # Empty
    /\ env.ENV = Production
    /\ dHost[1] = <<"f">> \o Port443

(* C3: for a request without TLS and without X-Forwarded-Proto whose        *)
(* resolved host (what detectHost returns, from X-Forwarded-Host, Host or   *)
(* the environment) contains .railway.app or .up.railway.app, detectScheme *)
(* returns "https".                                                         *)
C3_RailwayResolvedHostIsHttps ==
    (BothResolved /\ ~dReq[1].tls /\ dReq[1].xfp = Empty /\ IsRailwayHost(dHost[1]))
        => dScheme[1] = Https

(* C4: with no X-Forwarded-Host and a Host value ending in ":443" or ":80", *)
(* the resolved host is the Host value with exactly that port suffix        *)
(* removed, also when the Host value holds more than one colon.             *)
C4_StandardPortStripped ==
    /\ (HostResolved /\ dReq[1].xfh = Empty /\ HasSuffix(dReq[1].host, Port443))
            => dHost[1] = DropLast(dReq[1].host, Len(Port443))
    /\ (HostResolved /\ dReq[1].xfh = Empty /\ HasSuffix(dReq[1].host, Port80))
            => dHost[1] = DropLast(dReq[1].host, Len(Port80))

\* the precedence of the host: X-Forwarded-Host, then the Host value (the
\* result is the Host value or what is left of it), then the environment,
\* then the default
HostHierarchy ==
    HostResolved =>
        LET c == dReq[1]
        IN  /\ c.xfh # Empty => dHost[1] = c.xfh
            /\ c.xfh = Empty /\ c.host # Empty => HasPrefix(c.host, dHost[1])
            /\ c.xfh = Empty /\ c.host = Empty /\ EnvHostValues # {}
                    => dHost[1] \in EnvHostValues
            /\ c.xfh = Empty /\ c.host = Empty /\ EnvHostValues = {}
                    => dHost[1] = LocalhostFallback

\* the precedence of the scheme below the proxy header and the TLS state:
\* the Host value, then ENV, then the default
SchemeTail ==
    BothResolved /\ ~dReq[1].tls /\ dReq[1].xfp = Empty =>
        /\ IsRailwayHost(dReq[1].host) => dScheme[1] = Https
        /\ ~IsRailwayHost(dReq[1].host) /\ env.ENV \in {Production, Staging}
                => dScheme[1] = Https
        /\ ~IsRailwayHost(dReq[1].host) /\ env.ENV \notin {Production, Staging}
                => dScheme[1] = Http

(* C10 as claimed: a proxy header that is present determines its field and *)
(* outranks the connection metadata (Host, TLS), which outranks the         *)
(* environment, which outranks the defaults.                                *)
C10_ProxyHeadersOutrankConnection ==
    /\ HostHierarchy
    /\ BothResolved /\ dReq[1].xfp # Empty => dScheme[1] = dReq[1].xfp
    /\ BothResolved /\ dReq[1].xfp = Empty /\ dReq[1].tls => dScheme[1] = Https
    /\ SchemeTail

(* C10 as amended: the host follows X-Forwarded-Host, then Host, then the  *)
(* environment, then the default; for the scheme a TLS connection outranks  *)
(* X-Forwarded-Proto, which determines the scheme only without TLS and then *)
(* outranks the Host value, which outranks ENV, which outranks the default. *)
C10_TrustHierarchy ==
    /\ HostHierarchy
    /\ BothResolved /\ dReq[1].tls => dScheme[1] = Https
    /\ BothResolved /\ ~dReq[1].tls /\ dReq[1].xfp # Empty => dScheme[1] = dReq[1].xfp
    /\ SchemeTail

\* TLS with X-Forwarded-Proto "http": the connection decides
C10_Witness ==
    /\ BothResolved
    /\ dReq[1].tls
    /\ dReq[1].xfp = Http
    /\ dReq[1].xfh = Empty
    /\ dReq[1].host = <<"a">> \o Port80
    /\ env.RAILWAY_STATIC_URL # Empty
    /\ dHost[1] = <<"a">>
    /\ dScheme[1] = Https

\* the first non-empty value among RAILWAY_STATIC_URL, RAILWAY_PUBLIC_DOMAIN,
\* API_HOST and API_URL, in that order; "localhost:8080" when all are empty
FirstEnvHost ==
    IF env.RAILWAY_STATIC_URL # Empty THEN env.RAILWAY_STATIC_URL
    ELSE IF env.RAILWAY_PUBLIC_DOMAIN # Empty THEN env.RAILWAY_PUBLIC_DOMAIN
    ELSE IF env.API_HOST # Empty THEN env.API_HOST
    ELSE IF env.API_URL # Empty THEN env.API_URL
    ELSE LocalhostFallback

C13_TLSIsHttps ==
    BothResolved /\ dReq[1].tls => dScheme[1] = Https

\* TLS with X-Forwarded-Proto "http", a plain Host and an empty ENV
C13_Witness ==
    /\ BothResolved
    /\ dReq[1].tls
    /\ dReq[1].xfp = Http
    /\ ~IsRailwayHost(dReq[1].host)
    /\ env.ENV = Empty
    /\ dScheme[1] = Https

(* C14: without TLS, a non-empty X-Forwarded-Proto is the resolved scheme   *)
(* verbatim, also when it is neither "http" nor "https", whatever the Host  *)
(* value and ENV are.                                                       *)
C14_ForwardedProtoVerbatim ==
    (BothResolved /\ ~dReq[1].tls /\ dReq[1].xfp # Empty) => dScheme[1] = dReq[1].xfp

\* X-Forwarded-Proto "ws" against a Railway Host and ENV "production"
C14_Witness ==
    /\ BothResolved
    /\ ~dReq[1].tls
    /\ dReq[1].xfp = <<"w", "s">>
    /\ IsRailwayHost(dReq[1].host)
    /\ env.ENV = Production
    /\ dScheme[1] = <<"w", "s">>

(* C15: without TLS, without X-Forwarded-Proto and with a Host that holds   *)
(* no Railway domain, the resolved scheme is "https" exactly when ENV is    *)
(* "production" or "staging", and "http" otherwise.                         *)
C15_EnvDecidesTail ==
    (BothResolved /\ ~dReq[1].tls /\ dReq[1].xfp = Empty /\ ~IsRailwayHost(dReq[1].host))
        => /\ dScheme[1] = Https <=> env.ENV \in {Production, Staging}
           /\ dScheme[1] = Http <=> env.ENV \notin {Production, Staging}

\* ENV "prod" is not "production": the scheme is "http"
C15_Witness ==
    /\ BothResolved
    /\ ~dReq[1].tls
    /\ dReq[1].xfp = Empty
    /\ ~IsRailwayHost(dReq[1].host)
    /\ env.ENV = SubSeq(Production, 1, 4)
    /\ dScheme[1] = Http

----------------------------------------------------------------------------
(* Properties of the Document Publisher, checked under Spec *)

\* the request in slot i has been answered by the JSON closure of SetupWithSwag
\* with the document
SwagServed(i) ==
    /\ handler # <<>>
    /\ slots[i].pc = "done"
    /\ slots[i].req[1].path = handler[1].config.JSONPath
    /\ slots[i].resp[1].status = 200

ServedHost(i) == slots[i].resp[1].body.v[HostKey]
ServedSchemes(i) == slots[i].resp[1].body.v[SchemesKey]

(* C2: with auto-detection enabled, the host of every response of the JSON *)
(* closure of SetupWithSwag is the host resolved from the same request,     *)
(* however the requests in flight interleave.                               *)
C2_OwnHostInResponse ==
    \A i \in Slots :
        SwagServed(i) /\ handler[1].config.AutoDetectHost
            => ServedHost(i) = GoString(detectHost(slots[i].req[1]))

\* a response is ready while another request, with another forwarded host,
\* has already written its own host
C2_Witness ==
    \E i, j \in Slots :
        /\ SwagServed(i) /\ handler[1].config.AutoDetectHost
        /\ slots[j].pc = "swagRespond"
        /\ slots[i].req[1].xfh # Empty
        /\ slots[j].req[1].xfh # Empty
        /\ slots[i].req[1].xfh # slots[j].req[1].xfh
        /\ ServedHost(i) = GoString(slots[i].req[1].xfh)

(* C5: with auto-detection disabled and a non-empty Config.Host, the host  *)
(* of every served document is Config.Host, whatever the request and the    *)
(* environment are, and the schemes are Config.Schemes when that is not     *)
(* empty.                                                                   *)
C5_ManualHostVerbatim ==
    \A i \in Slots :
        (/\ SwagServed(i)
         /\ ~handler[1].config.AutoDetectHost
         /\ handler[1].config.Host # Empty)
            => /\ ServedHost(i) = GoString(handler[1].config.Host)
               /\ Len(handler[1].config.Schemes) > 0
                    => ServedSchemes(i) = StringSlice(handler[1].config.Schemes)

\* a request with a forwarded host, in a populated environment, over a
\* document that has a host of its own, is answered with the manual values
C5_Witness ==
    \E i \in Slots :
        /\ SwagServed(i)
        /\ ~handler[1].config.AutoDetectHost
        /\ handler[1].config.Host = ManualHost
        /\ handler[1].config.Schemes = ManualSchemes
        /\ slots[i].req[1].xfh # Empty
        /\ env.RAILWAY_STATIC_URL # Empty
        /\ HostKey \in DOMAIN handler[1].swagSpec.v
        /\ ServedHost(i) = GoString(ManualHost)
        /\ ServedSchemes(i) = StringSlice(ManualSchemes)

(* C6: with auto-detection enabled, the served host and schemes are the    *)
(* ones detectHost and detectScheme give for the request; Config.Host and   *)
(* Config.Schemes, whatever they are, do not show in the response.          *)
C6_AutoDetectIgnoresManual ==
    \A i \in Slots :
        SwagServed(i) /\ handler[1].config.AutoDetectHost
            => /\ ServedHost(i) = GoString(detectHost(slots[i].req[1]))
               /\ ServedSchemes(i) = StringSlice(<<detectScheme(slots[i].req[1])>>)

\* auto-detection with both manual overrides set
C6_Witness ==
    \E i \in Slots :
        /\ SwagServed(i)
        /\ handler[1].config.AutoDetectHost
        /\ handler[1].config.Host = ManualHost
        /\ handler[1].config.Schemes = ManualSchemes
        /\ ServedHost(i) # GoString(ManualHost)
        /\ ServedSchemes(i) # StringSlice(ManualSchemes)

\* the call LoadSwagDocs returns in this step, for a malformed text
LoadFails == loaded = <<>> /\ loaded' # <<>> /\ loaded'[1].malformed

(* C7: LoadSwagDocs on a text that is not well-formed JSON returns a nil   *)
(* document and an error, and leaves SwagSpec, the router and the document  *)
(* a registered handler holds as they were.                                 *)
C7_FailedLoadChangesNothing ==
    [][LoadFails =>
        /\ loaded'[1].err
        /\ loaded'[1].spec = Nil
        /\ UNCHANGED <<SwagSpec, routes, handler, swagger, heap>>]_vars

\* a failed load after a document was registered
C7_Witness ==
    /\ loaded # <<>>
    /\ loaded[1].malformed
    /\ loaded[1].err
    /\ pcMain = "registered"
    /\ handler # <<>>
    /\ HostKey \in DOMAIN heap[0]
    /\ SwagSpec = handler[1].swagSpec

\* SetupWithSwag, SetupFromDocs or the programmatic Setup was called with a
\* configuration whose Enabled is false
SetupDisabled ==
    /\ setupCall # <<>>
    /\ setupCall[1].fn \in {"SetupWithSwag", "SetupFromDocs", "Setup"}
    /\ setupCall[1].config # <<>>
    /\ ~setupCall[1].config[1].Enabled

(* C8: with Config.Enabled false, SetupWithSwag, SetupFromDocs and the     *)
(* programmatic Setup register no route, so every request for a            *)
(* documentation path is answered 404; SetupWithSwag leaves SwagSpec        *)
(* unassigned.                                                              *)
C8_DisabledRegistersNothing ==
    SetupDisabled =>
        /\ routes = {}
        /\ \A i \in Slots : slots[i].resp # <<>> => slots[i].resp[1].status = 404
        /\ setupCall[1].fn \in {"SetupWithSwag", "SetupFromDocs"} => SwagSpec = Nil

\* SetupWithSwag was given a document and a disabled configuration; the JSON
\* path and the UI path have both been asked for
C8_Witness ==
    /\ SetupDisabled
    /\ setupCall[1].fn = "SetupWithSwag"
    /\ setupCall[1].arg.t = "obj"
    /\ \E i, j \in Slots :
        /\ slots[i].pc = "done" /\ slots[i].req[1].path = SwaggerJSONPath
        /\ slots[j].pc = "done" /\ slots[j].req[1].path = IndexPath

\* the request in slot i has been answered by the JSON closure
SwagAnswered(i) ==
    /\ handler # <<>>
    /\ slots[i].pc = "done"
    /\ slots[i].req[1].path = handler[1].config.JSONPath

\* the body of the 500 response
InvalidSpecBody == GoMap(ErrorKey :> GoString(InvalidSwaggerSpec))

\* the answer of the JSON closure is decided by the type of the held spec
C9_StatusBySpecType ==
    \A i \in Slots :
        SwagAnswered(i) =>
            LET resp == slots[i].resp[1]
            IN  IF handler[1].swagSpec.t = "obj"
                THEN /\ resp.status = 200
                     /\ resp.body.t = "obj"
                     /\ \A k \in DOMAIN handler[1].swagSpec.v \ {HostKey, SchemesKey} :
                            k \in DOMAIN resp.body.v /\ resp.body.v[k] = handler[1].swagSpec.v[k]
                ELSE resp.status = 500 /\ resp.body = InvalidSpecBody

\* the closure answers 500 in this step
Answers500 ==
    \E i \in Slots :
        /\ slots[i].pc = "swag"
        /\ slots'[i].pc = "done"
        /\ slots'[i].resp[1].status = 500

(* C9: the JSON route of SetupWithSwag answers 200 with the document when  *)
(* the held spec is a map and 500 with the JSON error body when it is       *)
(* anything else; a 500 changes no state, so every later request is decided *)
(* by the held spec and the request alone.                                  *)
C9_MapOr500 ==
    /\ []C9_StatusBySpecType
    /\ [][Answers500 => UNCHANGED <<env, SwagSpec, routes, handler, swagger, heap>>]_vars

\* a 500 for a held slice, with a second request answered 500 as well
C9_Witness ==
    \E i, j \in Slots :
        /\ i # j
        /\ SwagAnswered(i) /\ SwagAnswered(j)
        /\ handler[1].swagSpec.t = "arr"
        /\ slots[i].resp[1].status = 500
        /\ slots[j].resp[1].status = 500

\* the top-level keys other than the two the closure overrides
OtherKeys(m) == DOMAIN m \ {HostKey, SchemesKey}

(* C18: serving through the JSON closure of SetupWithSwag never changes the *)
(* shared base document: whatever requests were served and however they     *)
(* interleaved, the held map has the keys and values it had at setup, its   *)
(* own host and schemes included, and every response equals it on every     *)
(* top-level key other than host and schemes.                               *)
C18_BaseDocumentNeverMutated ==
    (handler # <<>> /\ IsSpecMap(handler[1].swagSpec)) =>
        /\ heap[0] = setupCall[1].arg.v
        /\ \A i \in Slots :
              SwagServed(i) =>
                /\ OtherKeys(slots[i].resp[1].body.v) = OtherKeys(heap[0])
                /\ \A k \in OtherKeys(heap[0]) : slots[i].resp[1].body.v[k] = heap[0][k]

\* two responses with different hosts, both different from the host the base
\* document still has
C18_Witness ==
    \E i, j \in Slots :
        /\ SwagServed(i) /\ SwagServed(j)
        /\ handler[1].config.AutoDetectHost
        /\ {HostKey, SchemesKey} \subseteq DOMAIN heap[0]
        /\ ServedHost(i) # ServedHost(j)
        /\ heap[0][HostKey] = GoString(LocalhostFallback)
        /\ ServedHost(i) # heap[0][HostKey]
        /\ ServedHost(j) # heap[0][HostKey]
        /\ heap[0][SchemesKey] = StringSlice(<<Http>>)
        /\ ServedSchemes(j) = StringSlice(<<Https>>)
        /\ InfoKey \in OtherKeys(heap[0])

\* the request in slot i has been answered by docHandler
DocServed(i) ==
    /\ swagger # <<>>
    /\ slots[i].pc = "done"
    /\ slots[i].req[1].path = swagger[1].config.JSONPath
    /\ slots[i].resp[1].status = 200

(* C19: with auto-detection enabled, the host of every response of         *)
(* docHandler (the programmatic Setup) is the host resolved from the same   *)
(* request, however the requests in flight interleave.                      *)
C19_DocOwnHostInResponse ==
    \A i \in Slots :
        DocServed(i) /\ swagger[1].config.AutoDetectHost
            => slots[i].resp[1].body.v.Host = detectHost(slots[i].req[1])

\* the convenience Setup has returned
ConvenienceSetupDone == setupCall # <<>> /\ setupCall[1].fn = "SetupConvenience"

(* C20: the convenience Setup(router, config) error registers no route     *)
(* when Config.Enabled is false, and with Enabled true registers the JSON   *)
(* route and a UI route that points at the JSON route.                      *)
C20_ConvenienceSetupHonoursEnabled ==
    ConvenienceSetupDone =>
        LET c == OrDefault(setupCall[1].config)
        IN  IF ~c.Enabled
            THEN routes = {}
            ELSE /\ \E rt \in routes : rt.pattern = c.JSONPath
                 /\ \E rt \in routes :
                        /\ rt.pattern = c.UIPath \o AnySuffix
                        /\ rt.url = c.JSONPath

(* C21: with auto-detection disabled, a non-empty manual host and no       *)
(* manual schemes, the served host is the manual host and the served        *)
(* schemes is the one-element list holding detectScheme of the request      *)
(* being served.                                                            *)
C21_StaticHostDetectedScheme ==
    \A i \in Slots :
        (/\ SwagServed(i)
         /\ ~handler[1].config.AutoDetectHost
         /\ handler[1].config.Host # Empty
         /\ Len(handler[1].config.Schemes) = 0)
            => /\ ServedHost(i) = GoString(handler[1].config.Host)
               /\ ServedSchemes(i) = StringSlice(<<detectScheme(slots[i].req[1])>>)

\* two requests to the same publisher answered with the same host and
\* different schemes
C21_Witness ==
    \E i, j \in Slots :
        /\ SwagServed(i) /\ SwagServed(j)
        /\ ~handler[1].config.AutoDetectHost
        /\ handler[1].config.Host = ManualHost
        /\ Len(handler[1].config.Schemes) = 0
        /\ ServedHost(i) = GoString(ManualHost)
        /\ ServedHost(j) = GoString(ManualHost)
        /\ ServedSchemes(i) = StringSlice(<<Http>>)
        /\ ServedSchemes(j) = StringSlice(<<Https>>)

(* C25: with auto-detection disabled and an empty manual host the closure  *)
(* overrides nothing: the served document is the held document, host and    *)
(* schemes included, whatever the request and the environment are, and      *)
(* also when Config.Schemes is given.                                        *)
C25_NoOverrideWithoutManualHost ==
    \A i \in Slots :
        (/\ SwagServed(i)
         /\ ~handler[1].config.AutoDetectHost
         /\ handler[1].config.Host = Empty)
            => slots[i].resp[1].body = setupCall[1].arg

\* manual schemes without a manual host, a request with proxy headers over
\* TLS, and a document with a host and schemes of its own
C25_Witness ==
    \E i \in Slots :
        /\ SwagServed(i)
        /\ ~handler[1].config.AutoDetectHost
        /\ handler[1].config.Host = Empty
        /\ handler[1].config.Schemes = ManualSchemes
        /\ slots[i].req[1].xfh # Empty
        /\ slots[i].req[1].tls
        /\ {HostKey, SchemesKey} \subseteq DOMAIN slots[i].resp[1].body.v
        /\ ServedHost(i) = GoString(LocalhostFallback)
        /\ ServedSchemes(i) = StringSlice(<<Http>>)

\* SetupFromDocs has returned: "" is the nil error
FromDocsReturned == setupCall # <<>> /\ setupCall[1].fn = "SetupFromDocs"

(* C22: SetupFromDocs returns an error exactly when swaggerInfo has no      *)
(* ReadDoc method (ErrNotSupported) or the text of ReadDoc is not           *)
(* well-formed JSON (the parse error), and then no route is registered and  *)
(* SwagSpec is as it was; it returns nil only after SetupWithSwag has run   *)
(* with the parsed document.                                                *)
C22_FromDocsFailureIsAtomic ==
    FromDocsReturned =>
        LET call == setupCall[1]
            c == OrDefault(call.config)
        IN  /\ ~call.info.hasReadDoc => call.ret = "ErrNotSupported"
            /\ call.info.hasReadDoc /\ Malformed(call.info.doc) => call.ret = "ParseError"
            /\ call.info.hasReadDoc /\ ~Malformed(call.info.doc) => call.ret = ""
            /\ call.ret # "" => routes = {} /\ SwagSpec = Nil /\ handler = <<>>
            /\ call.ret = "" =>
                    /\ call.arg.t = "obj" <=> Head(call.info.doc) = LBrace
                    /\ call.arg.t = "arr" <=> Head(call.info.doc) = LBracket
                    /\ call.arg.t = "nil" <=> Head(call.info.doc) = NullTok
                    /\ IF c.Enabled
                       THEN /\ SwagSpec = call.arg
                            /\ handler = <<[swagSpec |-> call.arg, config |-> c]>>
                            /\ \E rt \in routes : rt.pattern = c.JSONPath /\ rt.handler = "swag"
                       ELSE routes = {} /\ SwagSpec = Nil

\* a parse error: the document with text after its last brace; the server
\* runs and the JSON path is answered 404
C22_Witness ==
    /\ FromDocsReturned
    /\ setupCall[1].ret = "ParseError"
    /\ setupCall[1].info.doc = DocText \o <<RBrace>>
    /\ setupCall[1].config # <<>>
    /\ setupCall[1].config[1].Enabled
    /\ routes = {}
    /\ SwagSpec = Nil
    /\ \E i \in Slots :
        /\ slots[i].pc = "done"
        /\ slots[i].req[1].path = SwaggerJSONPath
        /\ slots[i].resp[1].status = 404

\* SetupWithSwag, SetupFromDocs (returning nil) or the programmatic Setup was
\* called with a nil configuration
SetupWithNil ==
    /\ setupCall # <<>>
    /\ setupCall[1].fn \in {"SetupWithSwag", "SetupFromDocs", "Setup"}
    /\ setupCall[1].config = <<>>
    /\ setupCall[1].ret # "ErrNotSupported"
    /\ setupCall[1].ret # "ParseError"

(* C23: SetupWithSwag, SetupFromDocs and the programmatic Setup accept a   *)
(* nil configuration without failing and behave as with DefaultConfig():    *)
(* the JSON route is registered at /swagger.json and the UI route under     *)
(* /swagger, pointing at it.                                                *)
C23_NilConfigIsDefaultConfig ==
    SetupWithNil =>
        /\ pcMain # "panic"
        /\ setupCall[1].ret = ""
        /\ \E rt \in routes : rt.pattern = SwaggerJSONPath /\ rt.handler \in {"swag", "doc"}
        /\ \E rt \in routes :
                /\ rt.pattern = SwaggerPath \o AnySuffix
                /\ rt.handler = "ui"
                /\ rt.url = SwaggerJSONPath

\* the document ExportJSON gives, decoded
Exported(s) == Unmarshal(ExportJSON(s)).spec

(* C24: serving requests through docHandler leaves the host and schemes    *)
(* that GetSpec and ExportJSON report equal to the values New set from the  *)
(* configuration.                                                           *)
C24_ServingKeepsConstructedHost ==
    swagger # <<>> =>
        LET s == swagger[1]
            built == New(<<s.config>>)
        IN  /\ GetSpec(s).Host = s.config.Host
            /\ GetSpec(s).Schemes = s.config.Schemes
            /\ Exported(s).v[HostKey] = Exported(built).v[HostKey]
            /\ Exported(s).v[SchemesKey] = Exported(built).v[SchemesKey]

----------------------------------------------------------------------------
(* Properties of New, checked under SpecNew *)

\* New(config) has returned the instance swagger[1]
NewReturned == setupCall # <<>> /\ setupCall[1].fn = "New" /\ swagger # <<>>

(* C16: New(nil) yields a document whose info title is "API" and whose      *)
(* info version is "1.0.0".                                                 *)
C16_NilConfigTitleAndVersion ==
    (NewReturned /\ setupCall[1].config = <<>>)
        => /\ swagger[1].spec.Info.Title = <<"A", "P", "I">>
           /\ swagger[1].spec.Info.Version = <<"1", ".", "0", ".", "0">>

(* C17: the document New builds declares the security scheme "Bearer"      *)
(* (apiKey, in header, name Authorization) exactly when Config.BearerAuth   *)
(* is true and has no security definitions otherwise; its title,            *)
(* description and version are the configuration's.                         *)
C17_BearerIffBearerAuth ==
    NewReturned =>
        LET c == swagger[1].config
            doc == swagger[1].spec
        IN  /\ setupCall[1].config # <<>> => c = setupCall[1].config[1]
            /\ Bearer \in DOMAIN doc.SecurityDefinitions <=> c.BearerAuth
            /\ c.BearerAuth => doc.SecurityDefinitions = (Bearer :> BearerScheme)
            /\ ~c.BearerAuth => DOMAIN doc.SecurityDefinitions = {}
            /\ doc.Info.Title = c.Title
            /\ doc.Info.Description = c.Description
            /\ doc.Info.Version = c.Version

\* a configuration with a title, a description and a version of its own and
\* BearerAuth set
C17_Witness ==
    /\ NewReturned
    /\ setupCall[1].config # <<>>
    /\ setupCall[1].config[1].BearerAuth
    /\ setupCall[1].config[1].Title = TestTitle
    /\ swagger[1].spec.Info.Title = TestTitle
    /\ swagger[1].spec.Info.Description = TestDescription
    /\ swagger[1].spec.Info.Version = TestVersion
    /\ swagger[1].spec.SecurityDefinitions[Bearer].Name
            = <<"A", "u", "t", "h", "o", "r", "i", "z", "a", "t", "i", "o", "n">>

====
